---- MODULE Spec2Model ----
(***************************************************************************)
(* Model of the two command handlers of the plugins directory:             *)
(*   plugins/ai.py      ai_handler and its helpers (_chat_completion,       *)
(*                      _image_create, _image_edit, _describe_image,       *)
(*                      _transcribe_audio, get_api_key, ...)                *)
(*   plugins/gemini.py  gemini                                             *)
(* A handler invocation is a suspendable task; one action of the model is  *)
(* the code a task runs between two suspension points (await).  Strings    *)
(* are sequences of one-character strings, so that strip(), lower(),       *)
(* startswith(), "in" and slicing are computed as Python computes them.    *)
(* A character outside ASCII, and the backquote, is written "<U+xxxx>".     *)
(***************************************************************************)
EXTENDS Integers, Sequences, FiniteSets, TLC

(***************************************************************************)
(* String literals of the source                                           *)
(***************************************************************************)
\* ai.py:337
KW_create ==
    <<"c","r","e","a","t","e">>

\* ai.py:367
KW_describe ==
    <<"d","e","s","c","r","i","b","e">>

\* ai.py:392
KW_edit ==
    <<"e","d","i","t">>

\* ai.py:392
KW_unsupported ==
    <<"u","n","s","u","p","p","o","r","t","e","d">>

\* ai.py:392
KW_vision ==
    <<"v","i","s","i","o","n">>

\* ai.py:392
KW_text_plain ==
    <<"t","e","x","t","/","p","l","a","i","n">>

\* ai.py:421
KW_transcript ==
    <<"t","r","a","n","s","c","r","i","p","t">>

\* ai.py:421
KW_transcribe ==
    <<"t","r","a","n","s","c","r","i","b","e">>

\* ai.py:421
KW_give_transcript ==
    <<"g","i","v","e"," ","t","r","a","n","s","c","r","i","p","t">>

\* ai.py:69,101,145,200,302
MSG_KeyNotSet ==
    <<"<U+26A0>","<U+FE0F>"," ","A","I"," ","A","P","I"," ","k","e","y"," ","n","o","t"," ","s",
      "e","t","."," ","S","e","t"," ","i","t"," ","u","s","i","n","g"," ","<U+0060>","s","e",
      "t","d","b"," ","A","I","_","A","P","I","_","K","E","Y"," ","y","o","u","r","_","a","p",
      "i","_","k","e","y","<U+0060>"," ","o","r"," ","e","x","p","o","r","t"," ","<U+0060>","A",
      "I","_","A","P","I","_","K","E","Y","<U+0060>"," ","i","n"," ","y","o","u","r"," ",".",
      "e","n","v",".">>

\* ai.py:89
MSG_ErrChat ==
    <<"E","r","r","o","r"," ","c","o","n","t","a","c","t","i","n","g"," ","A","I"," ","A","P",
      "I",":"," ">>

\* ai.py:115
MSG_ErrImage ==
    <<"E","r","r","o","r"," ","c","o","n","t","a","c","t","i","n","g"," ","i","m","a","g","e",
      " ","A","P","I",":"," ">>

\* ai.py:139
MSG_ErrImageParse ==
    <<"E","r","r","o","r"," ","p","a","r","s","i","n","g"," ","i","m","a","g","e"," ","r","e",
      "s","p","o","n","s","e",":"," ">>

\* ai.py:163
MSG_EditReturned ==
    <<"I","m","a","g","e"," ","e","d","i","t"," ","e","n","d","p","o","i","n","t"," ","r","e",
      "t","u","r","n","e","d"," ">>

\* ai.py:166
MSG_ErrEdit ==
    <<"E","r","r","o","r"," ","c","o","n","t","a","c","t","i","n","g"," ","i","m","a","g","e",
      " ","e","d","i","t"," ","A","P","I",":"," ">>

\* ai.py:188
MSG_ErrEditParse ==
    <<"E","r","r","o","r"," ","p","a","r","s","i","n","g"," ","i","m","a","g","e"," ","e","d",
      "i","t"," ","r","e","s","p","o","n","s","e",":"," ">>

\* ai.py:275
MSG_NoDescription ==
    <<"N","o"," ","t","e","x","t","u","a","l"," ","d","e","s","c","r","i","p","t","i","o","n",
      " ","r","e","t","u","r","n","e","d"," ","b","y"," ","p","r","o","v","i","d","e","r",".",
      " ","R","a","w"," ","r","e","s","p","o","n","s","e",":"," ">>

\* ai.py:286
MSG_UploadFailed ==
    <<"F","a","i","l","e","d"," ","t","o"," ","u","p","l","o","a","d"," ","i","m","a","g","e",
      " ","f","o","r"," ","d","e","s","c","r","i","p","t","i","o","n",":"," ">>

\* ai.py:289-290
MSG_DescribeUrl ==
    <<"Y","o","u"," ","a","r","e"," ","a"," ","h","e","l","p","f","u","l"," ","a","s","s","i",
      "s","t","a","n","t","."," ","D","e","s","c","r","i","b","e"," ","t","h","e"," ","i","m",
      "a","g","e"," ","a","t"," ","t","h","e"," ","f","o","l","l","o","w","i","n","g"," ","U",
      "R","L"," ","i","n"," ","a"," ","f","e","w"," ","c","o","n","c","i","s","e"," ","s","e",
      "n","t","e","n","c","e","s",","," ","t","h","e","n"," ","l","i","s","t"," ","k","e","y",
      " ","o","b","j","e","c","t","s",","," ","c","o","l","o","r","s",","," ","a","n","d"," ",
      "a","n","y"," ","n","o","t","a","b","l","e"," ","a","t","t","r","i","b","u","t","e","s",
      "."," ","U","R","L",":"," ">>

\* ai.py:316
MSG_ErrTranscribe ==
    <<"E","r","r","o","r"," ","c","o","n","t","a","c","t","i","n","g"," ","t","r","a","n","s",
      "c","r","i","p","t","i","o","n"," ","A","P","I",":"," ">>

\* ai.py:340
MSG_NeedCreatePrompt ==
    <<"<U+274C>"," ","P","r","o","v","i","d","e"," ","a"," ","p","r","o","m","p","t"," ","f",
      "o","r"," ","i","m","a","g","e"," ","c","r","e","a","t","i","o","n",","," ","e",".","g",
      "."," ","<U+0060>",".","a","i"," ","c","r","e","a","t","e"," ","a"," ","r","e","d"," ",
      "a","p","p","l","e","<U+0060>">>

\* ai.py:378
MSG_NeedEditInstr ==
    <<"<U+274C>"," ","P","r","o","v","i","d","e"," ","e","d","i","t"," ","i","n","s","t","r",
      "u","c","t","i","o","n","s"," ","a","f","t","e","r"," ","<U+0060>",".","a","i","<U+0060>",
      ","," ","e",".","g","."," ","<U+0060>",".","a","i"," ","m","a","k","e"," ","i","t"," ",
      "l","o","o","k"," ","l","i","k","e"," ","a"," ","p","a","i","n","t","i","n","g",
      "<U+0060>"," ","o","r"," ","<U+0060>",".","a","i"," ","d","e","s","c","r","i","b","e",
      "<U+0060>"," ","t","o"," ","g","e","t"," ","a"," ","d","e","s","c","r","i","p","t","i",
      "o","n">>

\* ai.py:399
MSG_EditFailedNotice ==
    <<"<U+26A0>","<U+FE0F>"," ","I","m","a","g","e"," ","e","d","i","t"," ","f","a","i","l","e",
      "d",";"," ","h","e","r","e","'","s"," ","a"," ","d","e","s","c","r","i","p","t","i","o",
      "n"," ","i","n","s","t","e","a","d",":","\n","\n">>

\* ai.py:422
MSG_TranscriptReply ==
    <<"<U+1F4DD>"," ","T","r","a","n","s","c","r","i","p","t",":","\n">>

\* ai.py:426
MSG_TranscriptHead ==
    <<"T","r","a","n","s","c","r","i","p","t",":","\n">>

\* ai.py:426
MSG_UserInstruction ==
    <<"\n","\n","U","s","e","r"," ","i","n","s","t","r","u","c","t","i","o","n",":"," ">>

\* ai.py:437
MSG_SuggestHead ==
    <<"Y","o","u"," ","a","r","e"," ","a"," ","h","e","l","p","f","u","l"," ","a","s","s","i",
      "s","t","a","n","t","."," ","S","u","g","g","e","s","t"," ","a"," ","s","h","o","r","t",
      ","," ","p","o","l","i","t","e"," ","r","e","p","l","y"," ","t","o"," ","t","h","e"," ",
      "f","o","l","l","o","w","i","n","g"," ","m","e","s","s","a","g","e",":","\n","\n">>

\* ai.py:437
MSG_SuggestTail ==
    <<"\n","\n","R","e","p","l","y",":">>

\* ai.py:439
MSG_AnalyzeHead ==
    <<"A","n","a","l","y","z","e"," ","t","h","e"," ","f","o","l","l","o","w","i","n","g"," ",
      "m","e","s","s","a","g","e"," ","a","n","d"," ">>

\* ai.py:439
MSG_AnalyzeTail ==
    <<":","\n","\n">>

\* ai.py:447
MSG_NeedQuestion ==
    <<"<U+274C>"," ","P","l","e","a","s","e"," ","p","r","o","v","i","d","e"," ","a"," ","q",
      "u","e","s","t","i","o","n"," ","o","r"," ","u","s","e"," ","<U+0060>",".","a","i"," ",
      "c","r","e","a","t","e"," ","<","p","r","o","m","p","t",">","<U+0060>"," ","f","o","r",
      " ","i","m","a","g","e","s"," ","o","r"," ","r","e","p","l","y"," ","t","o"," ","m","e",
      "d","i","a"," ","w","i","t","h"," ","<U+0060>",".","a","i"," ","<","i","n","s","t","r",
      "u","c","t","i","o","n",">","<U+0060>",".">>

\* gemini.py:34-37
GMSG_KeyNotSet ==
    <<"<U+26A0>","<U+FE0F>"," ","P","l","e","a","s","e"," ","s","e","t"," ","G","e","m","i","n",
      "i"," ","A","P","I"," ","k","e","y"," ","u","s","i","n","g"," ","<U+0060>","s","e","t",
      "d","b"," ","G","E","M","I","N","I","_","A","P","I","_","K","E","Y"," ","y","o","u","r",
      "_","a","p","i","_","k","e","y","<U+0060>","\n","Y","o","u"," ","c","a","n"," ","a","l",
      "s","o"," ","s","e","t"," ","a"," ","c","u","s","t","o","m"," ","m","o","d","e","l"," ",
      "u","s","i","n","g"," ","<U+0060>","s","e","t","d","b"," ","G","E","M","I","N","I","_",
      "M","O","D","E","L"," ","<","m","o","d","e","l","_","n","a","m","e",">","<U+0060>",".">>

\* gemini.py:62
GMSG_UploadError ==
    <<"A","n"," ","e","r","r","o","r"," ","o","c","c","u","r","r","e","d"," ","w","h","i","l",
      "e"," ","u","p","l","o","a","d","i","n","g"," ","t","h","e"," ","m","e","d","i","a",".">>

\* gemini.py:68
GMSG_NeedPrompt ==
    <<"P","l","e","a","s","e"," ","p","r","o","v","i","d","e"," ","a"," ","p","r","o","m","p",
      "t",".">>

\* gemini.py:92
GMSG_ErrorHead ==
    <<"E","r","r","o","r",":"," ">>

\* gemini.py:92
GMSG_UnknownError ==
    <<"U","n","k","n","o","w","n"," ","e","r","r","o","r"," ","o","c","c","u","r","r","e","d">>

\* gemini.py:96
GMSG_BlockedFor ==
    <<"B","l","o","c","k","e","d"," ","f","o","r",":"," ">>

\* gemini.py:100
GMSG_NoCandidates ==
    <<"R","e","q","u","e","s","t"," ","w","a","s"," ","b","l","o","c","k","e","d"," ","o","r",
      " ","t","h","e"," ","m","o","d","e","l"," ","c","o","u","l","d"," ","n","o","t"," ","g",
      "e","n","e","r","a","t","e"," ","a"," ","r","e","s","p","o","n","s","e","."," ","C","h",
      "e","c","k"," ","l","o","g","s"," ","f","o","r"," ","d","e","t","a","i","l","s",".">>

\* gemini.py:110
GMSG_BlockedSafety ==
    <<"B","l","o","c","k","e","d"," ","f","o","r"," ","s","a","f","e","t","y"," ","r","e","a",
      "s","o","n","s",":"," ">>

\* gemini.py:110
GMSG_CommaSpace ==
    <<","," ">>

\* gemini.py:139
GMSG_Empty ==
    <<"E","m","p","t","y"," ","r","e","s","p","o","n","s","e"," ","f","r","o","m"," ","G","e",
      "m","i","n","i","."," ","T","h","e"," ","m","o","d","e","l"," ","m","a","y"," ","n","o",
      "t"," ","s","u","p","p","o","r","t"," ","t","h","i","s"," ","t","y","p","e"," ","o","f",
      " ","r","e","q","u","e","s","t","."," ","C","h","e","c","k"," ","l","o","g","s"," ","f",
      "o","r"," ","d","e","t","a","i","l","s",".">>

\* gemini.py:151
GMSG_Unexpected ==
    <<"A","n"," ","u","n","e","x","p","e","c","t","e","d"," ","e","r","r","o","r"," ","o","c",
      "c","u","r","r","e","d",":"," ">>

(***************************************************************************)
(* Values the environment supplies: user input, settings, provider output  *)
(***************************************************************************)
E_timeout ==
    <<"t","i","m","e","o","u","t">>

E_enoent ==
    <<"N","o"," ","s","u","c","h"," ","f","i","l","e">>

E_index ==
    <<"l","i","s","t"," ","i","n","d","e","x"," ","o","u","t"," ","o","f"," ","r","a","n","g",
      "e">>

J_error ==
    <<"{","\"","e","r","r","o","r","\"",":"," ","\"","b","a","d"," ","k","e","y","\"","}">>

J_unsupported ==
    <<"{","\"","e","r","r","o","r","\"",":"," ","\"","u","n","s","u","p","p","o","r","t","e",
      "d","\"","}">>

J_empty_item ==
    <<"{","\"","d","a","t","a","\"",":"," ","[","{","}","]","}">>

T_hello ==
    <<"h","e","l","l","o">>

T_hi_pad ==
    <<" ","h","i"," ">>

T_url ==
    <<"h","t","t","p",":","/","/","h","/","x">>

T_status_ct ==
    <<"4","0","4"," ","t","e","x","t","/","p","l","a","i","n">>

T_colon ==
    <<":"," ">>

T_not_found ==
    <<"n","o","t"," ","f","o","u","n","d">>

A_empty ==
    <<>>

A_create ==
    <<" ","c","r","e","a","t","e">>

A_create_cat ==
    <<" ","c","r","e","a","t","e"," ","c","a","t">>

A_Created ==
    <<" ","C","r","e","a","t","e","d">>

A_describe ==
    <<" ","d","e","s","c","r","i","b","e">>

A_Describe_it ==
    <<" ","D","e","s","c","r","i","b","e"," ","i","t">>

A_blur ==
    <<" ","b","l","u","r"," ","i","t">>

A_transcribe ==
    <<" ","T","r","a","n","s","c","r","i","b","e">>

A_sum ==
    <<" ","s","u","m"," ","u","p">>

G_bare ==
    <<".","g","e","m">>

G_hi ==
    <<".","g","e","m"," ","h","i">>

G_pad ==
    <<".","g","e","m"," "," ","a"," ","b"," ">>

T_NL2 ==
    <<"\n","\n">>

T_ellipsis ==
    <<".",".",".">>

D_base ==
    <<"h","t","t","p","s",":","/","/","a","p","i",".","o","p","e","n","a","i",".","c","o","m">>

D_model ==
    <<"g","p","t","-","3",".","5","-","t","u","r","b","o">>

V_key ==
    <<"s","k","-","1">>

V_key2 ==
    <<"s","k","-","2">>

V_base ==
    <<"h","t","t","p",":","/","/","p","/">>

V_base_env ==
    <<"h","t","t","p",":","/","/","e","/">>

V_model_env ==
    <<"m","1">>

V_model_pad ==
    <<" ","m","0"," ">>

T_SAFETY ==
    <<"S","A","F","E","T","Y">>

T_OTHER ==
    <<"O","T","H","E","R">>

T_HARM ==
    <<"H","A","R","M">>

T_HATE ==
    <<"H","A","T","E">>

T_quota ==
    <<"q","u","o","t","a">>

P_chat ==
    <<"/","v","1","/","c","h","a","t","/","c","o","m","p","l","e","t","i","o","n","s">>

P_images ==
    <<"/","v","1","/","i","m","a","g","e","s","/","g","e","n","e","r","a","t","i","o","n","s">>

P_edits ==
    <<"/","v","1","/","i","m","a","g","e","s","/","e","d","i","t","s">>

P_responses ==
    <<"/","v","1","/","r","e","s","p","o","n","s","e","s">>

P_transcriptions ==
    <<"/","v","1","/","a","u","d","i","o","/","t","r","a","n","s","c","r","i","p","t","i","o",
      "n","s">>

U_filehost ==
    <<"f","i","l","e","h","o","s","t">>

U_gemini ==
    <<"h","t","t","p","s",":","/","/","g","e","n","e","r","a","t","i","v","e","l","a","n","g",
      "u","a","g","e",".","g","o","o","g","l","e","a","p","i","s",".","c","o","m","/","v","1",
      "b","e","t","a","/","m","o","d","e","l","s","/">>

U_generate ==
    <<":","g","e","n","e","r","a","t","e","C","o","n","t","e","n","t","?","k","e","y","=">>

D_gemini_pro ==
    <<"g","e","m","i","n","i","-","p","r","o">>

D_gemini_vision ==
    <<"g","e","m","i","n","i","-","p","r","o","-","v","i","s","i","o","n">>

V_gmodel ==
    <<"g","2">>

T_hi ==
    <<"h","i">>

J_other ==
    <<"{","\"","x","\"",":"," ","1","}">>

(***************************************************************************)
(* Python values and string methods                                        *)
(***************************************************************************)
\* Python's None where a string is expected: a value no string equals.
None == <<"<None>">>

\* Truth value of an optional string: None and "" are false.
Truthy(v) == v # None /\ v # <<>>

\* a or b
Or(a, b) == IF Truthy(a) THEN a ELSE b

UPPER ==
    <<"A","B","C","D","E","F","G","H","I","J","K","L","M","N","O","P","Q","R","S","T","U","V",
      "W","X","Y","Z">>

LOWER ==
    <<"a","b","c","d","e","f","g","h","i","j","k","l","m","n","o","p","q","r","s","t","u","v",
      "w","x","y","z">>

\* str.lower()
lower(s) ==
    [k \in 1..Len(s) |->
        IF \E u \in 1..26 : UPPER[u] = s[k]
        THEN LOWER[CHOOSE u \in 1..26 : UPPER[u] = s[k]]
        ELSE s[k]]

IsSpace(c) == c \in {" ", "\n", "\t", "\r"}

RECURSIVE FirstNonSpace(_, _)
\* the first place at or after k that holds no whitespace, Len(s) + 1 if none
FirstNonSpace(s, k) ==
    IF k > Len(s) \/ ~IsSpace(s[k]) THEN k ELSE FirstNonSpace(s, k + 1)

RECURSIVE LastNonSpace(_, _)
\* the last place at or before k that holds no whitespace, 0 if none
LastNonSpace(s, k) ==
    IF k < 1 \/ ~IsSpace(s[k]) THEN k ELSE LastNonSpace(s, k - 1)

\* str.strip()
strip(s) == SubSeq(s, FirstNonSpace(s, 1), LastNonSpace(s, Len(s)))

\* str.rstrip(c)
rstrip(s, c) ==
    LET keep == {k \in 1..Len(s) : s[k] # c}
    IN  IF keep = {} THEN <<>>
        ELSE SubSeq(s, 1, CHOOSE k \in keep : \A j \in keep : k >= j)

\* s.startswith(p)
startswith(s, p) == Len(s) >= Len(p) /\ SubSeq(s, 1, Len(p)) = p

\* p in s
contains(s, p) == \E k \in 0..(Len(s) - Len(p)) : SubSeq(s, k + 1, k + Len(p)) = p

\* s[n:]
SliceFrom(s, n) == SubSeq(s, n + 1, Len(s))

\* s[a:b] for 0 <= a <= b
Slice(s, a, b) == SubSeq(s, a + 1, IF b < Len(s) THEN b ELSE Len(s))

\* text.split(maxsplit=1)[1] if text.split(maxsplit=1)[1:] else ""
SplitTail(text) ==
    LET t     == text
        word  == {k \in 1..Len(t) : ~IsSpace(t[k])}
        first == CHOOSE k \in word : \A j \in word : k <= j
        gap   == {k \in first..Len(t) : IsSpace(t[k])}
        sep   == CHOOSE k \in gap : \A j \in gap : k <= j
        rest  == {k \in sep..Len(t) : ~IsSpace(t[k])}
    IN  IF word = {} \/ gap = {} \/ rest = {} THEN <<>>
        ELSE SubSeq(t, CHOOSE k \in rest : \A j \in rest : k <= j, Len(t))

(***************************************************************************)
(* State                                                                   *)
(***************************************************************************)
VARIABLES
    udB,        \* the key-value store: setting name -> string or None
    environ,    \* the process environment: variable name -> string or None
    fs,         \* the files on disk: file name -> content
    handler,    \* per invocation: "ai" or "gem", or "off" when it never runs
    pc,         \* per invocation: the suspension point the task is at
    event,      \* per invocation: the command text and the replied-to message
    loc,        \* per invocation: the local variables of the handler
    status,     \* per invocation: operations applied to the status message
    sent,       \* per invocation: messages and files sent to the chat
    calls,      \* per invocation: outbound HTTP calls issued, in order
    invoked     \* per invocation: helper functions entered, in order

vars == <<udB, environ, fs, handler, pc, event, loc, status, sent, calls, invoked>>

(***************************************************************************)
(* plugins/ai.py: settings                                                 *)
(***************************************************************************)
\* get_api_key with the environment lookup wrapped in str(): str(None) is "None"
get_api_key_str ==
    LET db_key == Or(udB["AI_API_KEY"], udB["OPENAI_API_KEY"])
        env    == Or(environ["AI_API_KEY"], environ["OPENAI_API_KEY"])
    IN  IF Truthy(db_key) THEN db_key
        ELSE IF env = None THEN <<"N","o","n","e">> ELSE env

get_api_key ==
    LET db_key == Or(udB["AI_API_KEY"], udB["OPENAI_API_KEY"])
    IN  IF Truthy(db_key) THEN db_key
        ELSE Or(environ["AI_API_KEY"], environ["OPENAI_API_KEY"])

get_api_base ==
    LET base == udB["OPENAI_URL"]
    IN  rstrip(IF ~Truthy(base) THEN D_base ELSE base, "/")

get_model == strip(Or(udB["OPENAI_MODEL"], D_model))

(***************************************************************************)
(* plugins/ai.py: the helpers that call the provider.  Each is an operator *)
(* of its arguments and of what the network answers (net: the outcome of   *)
(* the POST, dl: the outcome of downloading a returned URL, up: the        *)
(* outcome of upload_file).  An outcome is [kind, body].  The result       *)
(* carries the HTTP calls the helper issued, a call that raised included.  *)
(***************************************************************************)
Call(path, payload) == [url |-> get_api_base \o path, payload |-> payload]

\* _chat_completion that posts a second time when the first POST raised
_chat_completion_retry(prompt, net) ==
    IF ~Truthy(get_api_key)
    THEN [text |-> MSG_KeyNotSet, calls |-> <<>>]
    ELSE LET c == <<Call(P_chat, prompt)>>
         IN  CASE net.kind = "raise"   -> [text |-> MSG_ErrChat \o net.body, calls |-> c \o c]
               [] net.kind = "content" -> [text |-> strip(net.body), calls |-> c]
               [] OTHER                -> [text |-> net.body, calls |-> c]

_chat_completion(prompt, net) ==
    IF ~Truthy(get_api_key)
    THEN [text |-> MSG_KeyNotSet, calls |-> <<>>]
    ELSE LET c == <<Call(P_chat, prompt)>>
         IN  CASE net.kind = "raise"   -> [text |-> MSG_ErrChat \o net.body, calls |-> c]
               [] net.kind = "content" -> [text |-> strip(net.body), calls |-> c]
               [] OTHER                -> [text |-> net.body, calls |-> c]

_image_create(prompt, net, dl) ==
    IF ~Truthy(get_api_key)
    THEN [file |-> FALSE, err |-> MSG_KeyNotSet, calls |-> <<>>]
    ELSE LET c == <<Call(P_images, prompt)>>
             d == <<[url |-> net.body, payload |-> <<>>]>>
         IN  CASE net.kind = "raise" ->
                    [file |-> FALSE, err |-> MSG_ErrImage \o net.body, calls |-> c]
               [] net.kind = "b64" ->
                    [file |-> TRUE, err |-> None, calls |-> c]
               [] net.kind = "badb64" ->
                    [file |-> FALSE, err |-> MSG_ErrImageParse \o net.body, calls |-> c]
               [] net.kind = "url" ->
                    IF dl.kind = "ok"
                    THEN [file |-> TRUE, err |-> None, calls |-> c \o d]
                    ELSE [file |-> FALSE, err |-> MSG_ErrImageParse \o dl.body,
                          calls |-> c \o d]
               [] OTHER ->
                    [file |-> FALSE, err |-> net.body, calls |-> c]

_image_edit(exists, prompt, net, dl) ==
    IF ~Truthy(get_api_key)
    THEN [file |-> FALSE, err |-> MSG_KeyNotSet, calls |-> <<>>]
    ELSE IF ~exists
    THEN [file |-> FALSE, err |-> MSG_ErrEdit \o E_enoent, calls |-> <<>>]
    ELSE LET c == <<Call(P_edits, prompt)>>
             d == <<[url |-> net.body, payload |-> <<>>]>>
         IN  CASE net.kind = "raise" ->
                    [file |-> FALSE, err |-> MSG_ErrEdit \o net.body, calls |-> c]
               [] net.kind = "nonjson" ->
                    [file |-> FALSE, err |-> MSG_EditReturned \o net.body, calls |-> c]
               [] net.kind = "emptydata" ->
                    [file |-> FALSE, err |-> MSG_ErrEditParse \o E_index, calls |-> c]
               [] net.kind = "b64" ->
                    [file |-> TRUE, err |-> None, calls |-> c]
               [] net.kind = "badb64" ->
                    [file |-> FALSE, err |-> MSG_ErrEditParse \o net.body, calls |-> c]
               [] net.kind = "url" ->
                    IF dl.kind = "ok"
                    THEN [file |-> TRUE, err |-> None, calls |-> c \o d]
                    ELSE [file |-> FALSE, err |-> MSG_ErrEditParse \o dl.body,
                          calls |-> c \o d]
               [] OTHER ->
                    [file |-> FALSE, err |-> net.body, calls |-> c]

RawLimit == 1500

\* raw[:1500] + ("..." if len(raw) > 1500 else "")
Truncated(raw) ==
    Slice(raw, 0, RawLimit) \o (IF Len(raw) > RawLimit THEN T_ellipsis ELSE <<>>)

_describe_image(exists, net, up, net2) ==
    IF ~Truthy(get_api_key)
    THEN [text |-> MSG_KeyNotSet, calls |-> <<>>]
    ELSE LET c == IF exists THEN <<Call(P_responses, <<>>)>> ELSE <<>>
             \* second tier: upload the image, ask the chat model about the URL
             hosted ==
                 IF ~exists
                 THEN [text |-> MSG_UploadFailed \o E_enoent, calls |-> c]
                 ELSE LET u == <<[url |-> U_filehost, payload |-> <<>>]>>
                      IN  IF up.kind = "raise"
                          THEN [text |-> MSG_UploadFailed \o up.body, calls |-> c \o u]
                          ELSE LET r == _chat_completion(MSG_DescribeUrl \o up.body, net2)
                               IN  [text |-> r.text, calls |-> c \o u \o r.calls]
         IN  CASE ~exists               -> hosted
               [] net.kind = "raise"    -> hosted
               [] net.kind = "falsy"    -> hosted
               [] net.kind = "output"   -> [text |-> net.body, calls |-> c]
               [] net.kind = "choices"  -> [text |-> strip(net.body), calls |-> c]
               [] OTHER ->
                    [text |-> MSG_NoDescription \o Truncated(net.body), calls |-> c]

_transcribe_audio(exists, net) ==
    IF ~Truthy(get_api_key)
    THEN [text |-> None, err |-> MSG_KeyNotSet, calls |-> <<>>]
    ELSE IF ~exists
    THEN [text |-> None, err |-> MSG_ErrTranscribe \o E_enoent, calls |-> <<>>]
    ELSE LET c == <<Call(P_transcriptions, <<>>)>>
         IN  CASE net.kind = "raise" ->
                    [text |-> None, err |-> MSG_ErrTranscribe \o net.body, calls |-> c]
               [] net.kind = "text" ->
                    [text |-> net.body, err |-> None, calls |-> c]
               [] OTHER ->
                    [text |-> None, err |-> net.body, calls |-> c]

(***************************************************************************)
(* What the network may answer                                             *)
(***************************************************************************)
Out(kind, body) == [kind |-> kind, body |-> body]

\* POST /v1/chat/completions: transport error, a completion, another shape
ChatNets ==
    {Out("raise", E_timeout), Out("content", T_hi_pad), Out("other", J_error)}

\* POST /v1/images/generations
ImageNets ==
    {Out("raise", E_timeout), Out("b64", <<>>), Out("badb64", E_index),
     Out("url", T_url), Out("other", J_error)}

\* async_searcher(url, re_content=True)
Downloads == {Out("ok", <<>>), Out("raise", E_timeout)}

\* POST /v1/images/edits
EditNets ==
    {Out("raise", E_timeout), Out("nonjson", T_status_ct \o T_colon \o T_not_found),
     Out("emptydata", <<>>), Out("b64", <<>>), Out("badb64", E_index), Out("url", T_url),
     Out("other", J_error), Out("other", J_unsupported), Out("other", J_empty_item)}

\* POST /v1/responses
DescribeNets ==
    {Out("raise", E_timeout), Out("falsy", <<>>), Out("output", T_hello),
     Out("choices", T_hi_pad), Out("other", J_other)}

\* upload_file(image_path)
Uploads == {Out("ok", T_url), Out("raise", E_timeout)}

\* POST /v1/audio/transcriptions
TranscribeNets ==
    {Out("raise", E_timeout), Out("text", T_hello), Out("other", J_error)}

(***************************************************************************)
(* Invocations, files, messages                                            *)
(***************************************************************************)
Inv == {1, 2}

NoFile == <<>>

\* a name no existing file has (tempfile.NamedTemporaryFile, download_media)
FreshName(prefix, suffix) ==
    LET free == {k \in 1..(Cardinality(DOMAIN fs) + 1) :
                    <<prefix, ToString(k), suffix>> \notin DOMAIN fs}
    IN  <<prefix, ToString(CHOOSE k \in free : \A j \in free : k <= j), suffix>>

Exists(name) == name \in DOMAIN fs

WriteFile(f, name, content) ==
    [n \in DOMAIN f \cup {name} |-> IF n = name THEN content ELSE f[n]]

\* os.remove(name) inside try/except: pass
RemoveQuiet(f, name) == [n \in DOMAIN f \ {name} |-> f[n]]

Edited(text) == [op |-> "edit", text |-> text]
Deleted == [op |-> "delete", text |-> <<>>]
SentFile(name) == [kind |-> "file", text |-> <<>>, name |-> name, content |-> fs[name]]
SentText(text) ==
    [kind |-> "text", text |-> text, name |-> NoFile, content |-> [by |-> 0, what |-> "none"]]

NoLocals ==
    [arg |-> <<>>, prompt |-> <<>>, img |-> NoFile, file_path |-> NoFile, err |-> None,
     text |-> <<>>, media_data |-> FALSE, result_text |-> <<>>, media_path |-> NoFile,
     pos |-> 0, checks |-> <<>>]

(***************************************************************************)
(* plugins/ai.py: ai_handler                                               *)
(***************************************************************************)
\* reply.file.mime_type
mime_type(reply) ==
    CASE reply.kind = "photo"   -> <<"i","m","a","g","e","/","j","p","e","g">>
      [] reply.kind = "sticker" -> <<"i","m","a","g","e","/","w","e","b","p">>
      [] reply.kind = "voice"   -> <<"a","u","d","i","o","/","o","g","g">>
      [] reply.kind = "audio"   -> <<"a","u","d","i","o","/","m","p","e","g">>
      [] reply.kind = "video"   -> <<"v","i","d","e","o","/","m","p","4">>
      [] OTHER                  -> <<>>

has_media(reply) == reply.kind # "text"

is_image(reply) ==
    \/ reply.kind = "photo"
    \/ has_media(reply) /\ reply.kind # "photo"
         /\ startswith(mime_type(reply), <<"i","m","a","g","e">>)

is_audio(reply) ==
    \/ reply.kind = "voice"
    \/ has_media(reply) /\ startswith(mime_type(reply), <<"a","u","d","i","o">>)

\* the branch ai_handler takes for an argument and a replied-to message
Route(arg, reply) ==
    CASE startswith(lower(arg), KW_create) -> "create"
      [] reply.present /\ is_image(reply) ->
            IF Truthy(arg) /\ startswith(lower(arg), KW_describe) THEN "describe"
            ELSE IF ~Truthy(arg) THEN "no_instruction"
            ELSE "edit"
      [] reply.present /\ is_audio(reply) -> "audio"
      [] reply.present /\ Truthy(reply.message) -> "text"
      [] OTHER -> "plain"

\* the test of line 392 without the "unsupported" keyword
EditUnsupported_short(err) ==
    LET low == lower(err)
    IN  \/ contains(low, KW_edit)
        \/ contains(low, KW_vision)
        \/ contains(low, KW_describe)
        \/ contains(low, KW_text_plain)

\* "edit" in low or "unsupported" in low or ... (line 392)
EditUnsupported(err) ==
    LET low == lower(err)
    IN  \/ contains(low, KW_edit)
        \/ contains(low, KW_unsupported)
        \/ contains(low, KW_vision)
        \/ contains(low, KW_describe)
        \/ contains(low, KW_text_plain)

\* the test of line 421 without "not arg"
WantsTranscript_nonempty(arg) ==
    \/ contains(lower(arg), KW_transcript)
    \/ contains(lower(arg), KW_transcribe)
    \/ startswith(lower(arg), KW_give_transcript)

\* not arg or "transcript" in arg.lower() or ... (line 421)
WantsTranscript(arg) ==
    \/ ~Truthy(arg)
    \/ contains(lower(arg), KW_transcript)
    \/ contains(lower(arg), KW_transcribe)
    \/ startswith(lower(arg), KW_give_transcript)

Others == <<udB, environ, handler, event>>

Finish(i, ops) ==
    /\ status' = [status EXCEPT ![i] = @ \o ops]
    /\ pc' = [pc EXCEPT ![i] = "done"]

Raise(i) ==
    /\ pc' = [pc EXCEPT ![i] = "raised"]

\* the record kept of one helper call: its arguments, whether the file it was
\* handed exists at the call, and what it returned
Entry(name, prompt, path, r) ==
    [fn     |-> name,
     prompt |-> prompt,
     path   |-> path,
     exists |-> Exists(path),
     text   |-> IF "text" \in DOMAIN r THEN r.text ELSE None,
     err    |-> IF "err" \in DOMAIN r THEN r.err ELSE None,
     file   |-> IF "file" \in DOMAIN r THEN r.file ELSE FALSE,
     ncalls |-> Len(r.calls)]

Helper(i, name, prompt, path, r) ==
    /\ invoked' = [invoked EXCEPT ![i] = Append(@, Entry(name, prompt, path, r))]
    /\ calls' = [calls EXCEPT ![i] = @ \o r.calls]

\* lines 332-334
AiStart(i) ==
    /\ handler[i] = "ai" /\ pc[i] = "start"
    /\ loc' = [loc EXCEPT ![i].arg = strip(event[i].text)]
    /\ pc' = [pc EXCEPT ![i] = "routed"]
    /\ UNCHANGED <<Others, fs, status, sent, calls, invoked>>

\* lines 337-343
AiCreate(i) ==
    /\ handler[i] = "ai" /\ pc[i] = "routed"
    /\ Route(loc[i].arg, event[i].reply) = "create"
    /\ LET prompt == strip(SliceFrom(loc[i].arg, Len(KW_create)))
       IN  IF ~Truthy(prompt)
           THEN /\ Finish(i, <<Edited(MSG_NeedCreatePrompt)>>)
                /\ UNCHANGED <<Others, fs, loc, sent, calls, invoked>>
           ELSE \E net \in ImageNets, dl \in Downloads :
                  LET r    == _image_create(prompt, net, dl)
                      name == FreshName("/tmp/tmp", ".png")
                  IN  /\ Helper(i, "_image_create", prompt, NoFile, r)
                      /\ IF Truthy(r.err)
                         THEN /\ Finish(i, <<Edited(r.err)>>)
                              /\ loc' = [loc EXCEPT ![i].prompt = prompt, ![i].err = r.err]
                              /\ UNCHANGED <<Others, fs, sent>>
                         ELSE /\ fs' = WriteFile(fs, name, [by |-> i, what |-> "image"])
                              /\ loc' = [loc EXCEPT ![i].prompt = prompt,
                                                    ![i].file_path = name]
                              /\ pc' = [pc EXCEPT ![i] = "create_send"]
                              /\ UNCHANGED <<Others, status, sent>>

\* line 344
AiCreateSend(i) ==
    /\ handler[i] = "ai" /\ pc[i] = "create_send"
    /\ \/ /\ Exists(loc[i].file_path)
          /\ sent' = [sent EXCEPT ![i] = Append(@, SentFile(loc[i].file_path))]
          /\ pc' = [pc EXCEPT ![i] = "create_cleanup"]
       \/ /\ Raise(i)
          /\ UNCHANGED sent
    /\ UNCHANGED <<Others, fs, loc, status, calls, invoked>>

\* lines 345-350
AiCreateCleanup(i) ==
    /\ handler[i] = "ai" /\ pc[i] = "create_cleanup"
    /\ fs' = RemoveQuiet(fs, loc[i].file_path)
    /\ Finish(i, <<Deleted>>)
    /\ UNCHANGED <<Others, loc, sent, calls, invoked>>

\* reply.download_media(): stores the media under a new name, or raises
Download(i, next) ==
    \/ LET name == FreshName("download", "")
       IN  /\ fs' = WriteFile(fs, name, [by |-> i, what |-> "media"])
           /\ loc' = [loc EXCEPT ![i].img = name]
           /\ pc' = [pc EXCEPT ![i] = next]
    \/ /\ Raise(i)
       /\ UNCHANGED <<fs, loc>>

\* lines 365-368
AiDescribeDownload(i) ==
    /\ handler[i] = "ai" /\ pc[i] = "routed"
    /\ Route(loc[i].arg, event[i].reply) = "describe"
    /\ Download(i, "describe")
    /\ UNCHANGED <<Others, status, sent, calls, invoked>>

\* lines 369-375
AiDescribe(i) ==
    /\ handler[i] = "ai" /\ pc[i] = "describe"
    /\ \E net \in DescribeNets, up \in Uploads, net2 \in ChatNets :
         LET r == _describe_image(Exists(loc[i].img), net, up, net2)
         IN  /\ Helper(i, "_describe_image", <<>>, loc[i].img, r)
             /\ fs' = RemoveQuiet(fs, loc[i].img)
             /\ loc' = [loc EXCEPT ![i].text = r.text]
             /\ Finish(i, <<Edited(r.text)>>)
    /\ UNCHANGED <<Others, sent>>

\* lines 377-378
AiNoInstruction(i) ==
    /\ handler[i] = "ai" /\ pc[i] = "routed"
    /\ Route(loc[i].arg, event[i].reply) = "no_instruction"
    /\ Finish(i, <<Edited(MSG_NeedEditInstr)>>)
    /\ UNCHANGED <<Others, fs, loc, sent, calls, invoked>>

\* line 380
AiEditDownload(i) ==
    /\ handler[i] = "ai" /\ pc[i] = "routed"
    /\ Route(loc[i].arg, event[i].reply) = "edit"
    /\ Download(i, "edit")
    /\ UNCHANGED <<Others, status, sent, calls, invoked>>

\* lines 381-392, 400
AiEdit(i) ==
    /\ handler[i] = "ai" /\ pc[i] = "edit"
    /\ \E net \in EditNets, dl \in Downloads :
         LET r    == _image_edit(Exists(loc[i].img), loc[i].arg, net, dl)
             name == FreshName("/tmp/tmp", ".png")
             made == IF r.file THEN WriteFile(fs, name, [by |-> i, what |-> "image"])
                     ELSE fs
         IN  /\ Helper(i, "_image_edit", loc[i].arg, loc[i].img, r)
             /\ fs' = RemoveQuiet(made, loc[i].img)
             /\ loc' = [loc EXCEPT ![i].file_path = IF r.file THEN name ELSE NoFile,
                                   ![i].err = r.err]
             /\ IF Truthy(r.err)
                THEN IF EditUnsupported(r.err)
                     THEN /\ pc' = [pc EXCEPT ![i] = "edit_fallback"]
                          /\ UNCHANGED status
                     ELSE Finish(i, <<Edited(r.err)>>)
                ELSE /\ pc' = [pc EXCEPT ![i] = "edit_send"]
                     /\ UNCHANGED status
    /\ UNCHANGED <<Others, sent>>

\* lines 393-399
AiEditFallback(i) ==
    /\ handler[i] = "ai" /\ pc[i] = "edit_fallback"
    /\ \E net \in DescribeNets, up \in Uploads, net2 \in ChatNets :
         LET path == IF loc[i].file_path # NoFile THEN loc[i].file_path ELSE loc[i].img
             r    == _describe_image(Exists(path), net, up, net2)
         IN  /\ Helper(i, "_describe_image", <<>>, path, r)
             /\ fs' = IF loc[i].file_path # NoFile
                      THEN RemoveQuiet(fs, loc[i].file_path) ELSE fs
             /\ loc' = [loc EXCEPT ![i].text = r.text]
             /\ Finish(i, <<Edited(MSG_EditFailedNotice \o r.text)>>)
    /\ UNCHANGED <<Others, sent>>

\* line 402
AiEditSend(i) ==
    /\ handler[i] = "ai" /\ pc[i] = "edit_send"
    /\ \/ /\ Exists(loc[i].file_path)
          /\ sent' = [sent EXCEPT ![i] = Append(@, SentFile(loc[i].file_path))]
          /\ pc' = [pc EXCEPT ![i] = "edit_cleanup"]
       \/ /\ Raise(i)
          /\ UNCHANGED sent
    /\ UNCHANGED <<Others, fs, loc, status, calls, invoked>>

\* lines 403-408
AiEditCleanup(i) ==
    /\ handler[i] = "ai" /\ pc[i] = "edit_cleanup"
    /\ fs' = RemoveQuiet(fs, loc[i].file_path)
    /\ Finish(i, <<Deleted>>)
    /\ UNCHANGED <<Others, loc, sent, calls, invoked>>

\* lines 411-412
AiAudioDownload(i) ==
    /\ handler[i] = "ai" /\ pc[i] = "routed"
    /\ Route(loc[i].arg, event[i].reply) = "audio"
    /\ Download(i, "transcribe")
    /\ UNCHANGED <<Others, status, sent, calls, invoked>>

\* lines 413-421
AiTranscribe(i) ==
    /\ handler[i] = "ai" /\ pc[i] = "transcribe"
    /\ \E net \in TranscribeNets :
         LET r == _transcribe_audio(Exists(loc[i].img), net)
         IN  /\ Helper(i, "_transcribe_audio", <<>>, loc[i].img, r)
             /\ fs' = RemoveQuiet(fs, loc[i].img)
             /\ loc' = [loc EXCEPT ![i].text = r.text, ![i].err = r.err]
             /\ IF Truthy(r.err)
                THEN Finish(i, <<Edited(r.err)>>)
                ELSE /\ pc' = [pc EXCEPT ![i] =
                                  IF WantsTranscript(loc[i].arg) THEN "transcript_reply"
                                  ELSE "audio_chat"]
                     /\ UNCHANGED status
    /\ UNCHANGED <<Others, sent>>

\* event.reply(text) then msg.delete(); event.reply may raise
ReplyAndDelete(i, text) ==
    \/ /\ sent' = [sent EXCEPT ![i] = Append(@, SentText(text))]
       /\ Finish(i, <<Deleted>>)
    \/ /\ Raise(i)
       /\ UNCHANGED <<sent, status>>

\* lines 422-424
AiTranscriptReply(i) ==
    /\ handler[i] = "ai" /\ pc[i] = "transcript_reply"
    /\ ReplyAndDelete(i, MSG_TranscriptReply \o loc[i].text)
    /\ UNCHANGED <<Others, fs, loc, calls, invoked>>

\* lines 426-427
AiAudioChat(i) ==
    /\ handler[i] = "ai" /\ pc[i] = "audio_chat"
    /\ \E net \in ChatNets :
         LET combined == MSG_TranscriptHead \o loc[i].text
                           \o MSG_UserInstruction \o loc[i].arg
             r        == _chat_completion(combined, net)
         IN  /\ Helper(i, "_chat_completion", combined, NoFile, r)
             /\ loc' = [loc EXCEPT ![i].prompt = combined, ![i].text = r.text]
    /\ pc' = [pc EXCEPT ![i] = "audio_chat_reply"]
    /\ UNCHANGED <<Others, fs, status, sent>>

\* lines 428-430
AiAudioChatReply(i) ==
    /\ handler[i] = "ai" /\ pc[i] = "audio_chat_reply"
    /\ ReplyAndDelete(i, loc[i].text)
    /\ UNCHANGED <<Others, fs, loc, calls, invoked>>

\* lines 433-440
AiTextChat(i) ==
    /\ handler[i] = "ai" /\ pc[i] = "routed"
    /\ Route(loc[i].arg, event[i].reply) = "text"
    /\ \E net \in ChatNets :
         LET original == event[i].reply.message
             prompt   == IF ~Truthy(loc[i].arg)
                         THEN MSG_SuggestHead \o original \o MSG_SuggestTail
                         ELSE MSG_AnalyzeHead \o loc[i].arg \o MSG_AnalyzeTail \o original
             r        == _chat_completion(prompt, net)
         IN  /\ Helper(i, "_chat_completion", prompt, NoFile, r)
             /\ loc' = [loc EXCEPT ![i].prompt = prompt, ![i].text = r.text]
    /\ pc' = [pc EXCEPT ![i] = "text_reply"]
    /\ UNCHANGED <<Others, fs, status, sent>>

\* lines 441-443
AiTextReply(i) ==
    /\ handler[i] = "ai" /\ pc[i] = "text_reply"
    /\ ReplyAndDelete(i, loc[i].text)
    /\ UNCHANGED <<Others, fs, loc, calls, invoked>>

\* lines 446-449
AiPlain(i) ==
    /\ handler[i] = "ai" /\ pc[i] = "routed"
    /\ Route(loc[i].arg, event[i].reply) = "plain"
    /\ IF ~Truthy(loc[i].arg)
       THEN /\ Finish(i, <<Edited(MSG_NeedQuestion)>>)
            /\ UNCHANGED <<loc, calls, invoked>>
       ELSE \E net \in ChatNets :
              LET r == _chat_completion(loc[i].arg, net)
              IN  /\ Helper(i, "_chat_completion", loc[i].arg, NoFile, r)
                  /\ loc' = [loc EXCEPT ![i].prompt = loc[i].arg, ![i].text = r.text]
                  /\ Finish(i, <<Edited(r.text)>>)
    /\ UNCHANGED <<Others, fs, sent>>

ai_handler(i) ==
    \/ AiStart(i)
    \/ AiCreate(i)
    \/ AiCreateSend(i)
    \/ AiCreateCleanup(i)
    \/ AiDescribeDownload(i)
    \/ AiDescribe(i)
    \/ AiNoInstruction(i)
    \/ AiEditDownload(i)
    \/ AiEdit(i)
    \/ AiEditFallback(i)
    \/ AiEditSend(i)
    \/ AiEditCleanup(i)
    \/ AiAudioDownload(i)
    \/ AiTranscribe(i)
    \/ AiTranscriptReply(i)
    \/ AiAudioChat(i)
    \/ AiAudioChatReply(i)
    \/ AiTextChat(i)
    \/ AiTextReply(i)
    \/ AiPlain(i)

(***************************************************************************)
(* Inputs and the specification of one ai_handler invocation               *)
(***************************************************************************)
Settings(ai, openai, url, model, gem, gmodel) ==
    [AI_API_KEY |-> ai, OPENAI_API_KEY |-> openai, OPENAI_URL |-> url,
     OPENAI_MODEL |-> model, GEMINI_API_KEY |-> gem, GEMINI_MODEL |-> gmodel]

AiStores ==
    {Settings(ai, openai, url, model, None, None) :
        ai \in {None, V_key}, openai \in {None, <<>>, V_key2},
        url \in {None, V_base}, model \in {None}}
    \cup {Settings(V_key, None, None, V_model_pad, None, None)}

Environments ==
    {Settings(ai, openai, None, None, None, None) :
        ai \in {None, V_key}, openai \in {None, V_key2}}
    \cup {Settings(None, V_key2, V_base_env, V_model_env, None, None)}

Reply(present, kind, message) == [present |-> present, kind |-> kind, message |-> message]

NoReply == Reply(FALSE, "text", <<>>)

Replies ==
    {NoReply, Reply(TRUE, "photo", <<>>), Reply(TRUE, "sticker", <<>>),
     Reply(TRUE, "voice", <<>>), Reply(TRUE, "audio", <<>>),
     Reply(TRUE, "video", <<>>), Reply(TRUE, "text", T_hello)}

AiArgs ==
    {A_empty, A_create, A_create_cat, A_Created, A_describe, A_Describe_it, A_blur,
     A_transcribe, A_sum}

NoResponse == [none |-> TRUE]

InitCommon ==
    /\ fs = << >>
    /\ loc = [i \in Inv |-> NoLocals]
    /\ status = [i \in Inv |-> <<>>]
    /\ sent = [i \in Inv |-> <<>>]
    /\ calls = [i \in Inv |-> <<>>]
    /\ invoked = [i \in Inv |-> <<>>]

Init ==
    /\ udB \in AiStores
    /\ environ \in Environments
    /\ handler = [i \in Inv |-> IF i = 1 THEN "ai" ELSE "off"]
    /\ pc = [i \in Inv |-> IF i = 1 THEN "start" ELSE "off"]
    /\ \E text \in AiArgs, reply \in Replies :
         event = [i \in Inv |-> [text |-> text, reply |-> reply, response |-> NoResponse]]
    /\ InitCommon

Next == \E i \in Inv : ai_handler(i)

Spec == Init /\ [][Next]_vars

(***************************************************************************)
(* Properties of ai_handler                                                *)
(***************************************************************************)
Ai == {i \in Inv : handler[i] = "ai"}

Returned(i) == pc[i] = "done"

\* no key in the store and none in the environment
NoKeyConfigured ==
    /\ ~Truthy(udB["AI_API_KEY"]) /\ ~Truthy(udB["OPENAI_API_KEY"])
    /\ ~Truthy(environ["AI_API_KEY"]) /\ ~Truthy(environ["OPENAI_API_KEY"])

\* C1: with no API key configured, every call of _chat_completion,
\* _image_create, _image_edit, _describe_image and _transcribe_audio returns
\* the 'AI API key not set' message (as its text, or as the error of its pair
\* with a null first half) and issues no HTTP call.
C1_NoKeyShortCircuits ==
    NoKeyConfigured =>
        \A i \in Ai : \A k \in 1..Len(invoked[i]) :
            LET e == invoked[i][k]
            IN  /\ e.ncalls = 0
                /\ calls[i] = <<>>
                /\ e.fn \in {"_chat_completion", "_describe_image"} =>
                       e.text = MSG_KeyNotSet
                /\ e.fn \in {"_image_create", "_image_edit"} =>
                       e.err = MSG_KeyNotSet /\ ~e.file
                /\ e.fn = "_transcribe_audio" =>
                       e.err = MSG_KeyNotSet /\ e.text = None

C1_Witness ==
    /\ NoKeyConfigured
    /\ Returned(1)
    /\ Len(invoked[1]) = 1
    /\ invoked[1][1].fn = "_describe_image"
    /\ status[1] = <<Edited(MSG_KeyNotSet)>>

EditKeywords == {KW_edit, KW_unsupported, KW_vision, KW_describe, KW_text_plain}

\* what C2 promises of an invocation that has returned
EditThenDescribe(i) ==
    /\ Len(invoked[i]) >= 1
    /\ invoked[i][1].fn = "_image_edit"
    /\ (\E kw \in EditKeywords : contains(lower(invoked[i][1].err), kw)) =>
          /\ Len(invoked[i]) = 2
          /\ invoked[i][2].fn = "_describe_image"
          /\ status[i] = <<Edited(MSG_EditFailedNotice \o invoked[i][2].text)>>

\* C2 as stated: a reply to a photo and any non-empty instruction make the
\* handler invoke image-edit and, on an error text with one of the keywords,
\* image-description, whose result prefixed with the notice replaces the
\* status message.
C2_AnyInstructionEdits ==
    \A i \in Ai :
        (/\ Returned(i)
         /\ event[i].reply.present /\ event[i].reply.kind = "photo"
         /\ Truthy(strip(event[i].text)))
        => EditThenDescribe(i)

\* C2 amended: the same for an instruction that starts with neither "create"
\* nor "describe" (in any letter case).
C2_EditInstructionEdits ==
    \A i \in Ai :
        (/\ Returned(i)
         /\ event[i].reply.present /\ event[i].reply.kind = "photo"
         /\ Truthy(strip(event[i].text))
         /\ ~startswith(lower(strip(event[i].text)), KW_create)
         /\ ~startswith(lower(strip(event[i].text)), KW_describe))
        => EditThenDescribe(i)

C2_Witness ==
    /\ Returned(1)
    /\ event[1].reply.kind = "photo" /\ event[1].reply.present
    /\ strip(event[1].text) = strip(A_blur)
    /\ Len(invoked[1]) = 2
    /\ invoked[1][1].fn = "_image_edit"
    /\ invoked[1][1].err = J_unsupported
    /\ invoked[1][2].fn = "_describe_image"
    /\ status[1] = <<Edited(MSG_EditFailedNotice \o invoked[1][2].text)>>

IsVoiceOrAudio(i) ==
    event[i].reply.present /\ event[i].reply.kind \in {"voice", "audio"}

Transcribed(i) ==
    /\ Len(invoked[i]) >= 1
    /\ invoked[i][1].fn = "_transcribe_audio"
    /\ invoked[i][1].err = None

RepliedTranscript(i) ==
    /\ Len(invoked[i]) = 1
    /\ sent[i] = <<SentText(MSG_TranscriptReply \o invoked[i][1].text)>>

RepliedChatAnswer(i) ==
    /\ Len(invoked[i]) = 2
    /\ invoked[i][2].fn = "_chat_completion"
    /\ invoked[i][2].prompt =
          MSG_TranscriptHead \o invoked[i][1].text
              \o MSG_UserInstruction \o strip(event[i].text)
    /\ sent[i] = <<SentText(invoked[i][2].text)>>

\* C3 as stated: after a successful transcription of a replied-to voice/audio
\* message the handler replies with the transcript when the instruction is
\* empty, and with the answer of a chat completion over transcript and
\* instruction for any non-empty instruction.
C3_AnyInstructionAnswers ==
    \A i \in Ai :
        (Returned(i) /\ IsVoiceOrAudio(i) /\ Transcribed(i)) =>
            IF ~Truthy(strip(event[i].text))
            THEN RepliedTranscript(i)
            ELSE RepliedChatAnswer(i)

\* C3 amended: the handler replies with the transcript when the instruction
\* is empty or contains "transcript" or "transcribe" (in any letter case),
\* and with the chat-completion answer for every other instruction.
C3_TranscriptOrAnswer ==
    \A i \in Ai :
        (Returned(i) /\ IsVoiceOrAudio(i) /\ Transcribed(i)) =>
            LET arg == strip(event[i].text)
            IN  IF \/ ~Truthy(arg)
                   \/ contains(lower(arg), KW_transcript)
                   \/ contains(lower(arg), KW_transcribe)
                THEN RepliedTranscript(i)
                ELSE RepliedChatAnswer(i)

C3_Witness ==
    /\ Returned(1) /\ IsVoiceOrAudio(1) /\ Transcribed(1)
    /\ strip(event[1].text) = strip(A_sum)
    /\ RepliedChatAnswer(1)
    /\ status[1] = <<Deleted>>

TookFallback(i) ==
    \E k \in 2..Len(invoked[i]) :
        invoked[i][k - 1].fn = "_image_edit" /\ invoked[i][k].fn = "_describe_image"

\* C9 as stated: an invocation that has returned issued exactly one HTTP
\* call, or at most two when it took the edit-then-describe fallback.
C9_OneCall ==
    \A i \in Ai :
        Returned(i) =>
            IF TookFallback(i) THEN Len(calls[i]) <= 2 ELSE Len(calls[i]) = 1

\* the most HTTP calls a branch of ai_handler issues
MaxCalls(route) ==
    CASE route = "no_instruction" -> 0
      [] route \in {"text", "plain"} -> 1
      [] route \in {"create", "audio", "edit"} -> 2
      [] route = "describe" -> 3

\* C9 amended: an invocation issues no HTTP call when no API key is
\* configured or the command fails validation, at most one in the text-reply
\* and plain-chat branches, at most two in image generation, voice/audio and
\* image edit (its describe fallback included), at most three in explicit
\* describe.
C9_CallsBounded ==
    \A i \in Ai :
        LET arg   == strip(event[i].text)
            route == Route(arg, event[i].reply)
        IN  /\ Len(calls[i]) <= MaxCalls(route)
            /\ NoKeyConfigured => calls[i] = <<>>
            /\ (route = "plain" /\ ~Truthy(arg)) => calls[i] = <<>>
            /\ (route = "create" /\ ~Truthy(strip(SliceFrom(arg, Len(KW_create)))))
                  => calls[i] = <<>>

C9_Witness ==
    /\ Returned(1)
    /\ Len(calls[1]) = 3
    /\ Len(invoked[1]) = 1
    /\ invoked[1][1].fn = "_describe_image"

\* the first non-empty of the store's value, the environment's value and the
\* hardcoded default
FirstNonEmpty(store, env, default) ==
    IF Truthy(store) THEN store ELSE IF Truthy(env) THEN env ELSE default

\* the base URL under which a provider call was issued: the call's URL
\* without the endpoint path
BaseOf(call, path) == Slice(call.url, 0, Len(call.url) - Len(path))

\* the call went to the endpoint path
IsCallTo(call, path) ==
    /\ Len(call.url) >= Len(path)
    /\ SliceFrom(call.url, Len(call.url) - Len(path)) = path

\* C11: each setting of the provider (API key, base URL, model id) resolves
\* to the first non-empty of key-value store, environment variable and
\* hardcoded default (the base URL without its trailing slash, the model id
\* without surrounding whitespace), and every chat-completion call the
\* handler issued went to the base URL resolved that way.
C11_StoreThenEnvThenDefault ==
    LET key   == FirstNonEmpty(Or(udB["AI_API_KEY"], udB["OPENAI_API_KEY"]),
                               Or(environ["AI_API_KEY"], environ["OPENAI_API_KEY"]),
                               None)
        base  == rstrip(FirstNonEmpty(udB["OPENAI_URL"], environ["OPENAI_URL"], D_base),
                        "/")
        model == strip(FirstNonEmpty(udB["OPENAI_MODEL"], environ["OPENAI_MODEL"],
                                     D_model))
    IN  /\ get_api_key = key
        /\ get_api_base = base
        /\ get_model = model
        /\ \A i \in Ai :
              \A k \in 1..Len(calls[i]) :
                  IsCallTo(calls[i][k], P_chat) => BaseOf(calls[i][k], P_chat) = base

\* the error _image_edit returns when the request could not be made or
\* answered (line 166): a connection error, a timeout, an unreadable file
IsTransportError(err) == startswith(err, MSG_ErrEdit)

\* the error text was made from what the provider answered: the raw non-JSON
\* body (line 163) or the JSON document itself (lines 171, 185)
FromProviderResponse(err) ==
    /\ Truthy(err)
    /\ err # MSG_KeyNotSet
    /\ ~startswith(err, MSG_ErrEdit)
    /\ ~startswith(err, MSG_ErrEditParse)

\* C12: for an image reply with an edit instruction, the describe fallback
\* is entered only when the error of image-edit came from the provider's
\* response; when image-edit failed with a transport error the handler's
\* final message is that error string and no description was attempted.
C12_TransportErrorSurfaced ==
    \A i \in Ai :
        (Len(invoked[i]) >= 1 /\ invoked[i][1].fn = "_image_edit")
          => /\ TookFallback(i) => FromProviderResponse(invoked[i][1].err)
             /\ (Returned(i) /\ IsTransportError(invoked[i][1].err))
                  => /\ Len(invoked[i]) = 1
                     /\ status[i] = <<Edited(invoked[i][1].err)>>

\* the helpers that read a local media file
MediaHelpers == {"_image_edit", "_describe_image", "_transcribe_audio"}

\* C13: every local media path handed to _image_edit, _describe_image or
\* _transcribe_audio names a file that exists at the moment of the call, the
\* describe call of the image-edit fallback included.
C13_MediaExistsAtCall ==
    \A i \in Ai :
        \A k \in 1..Len(invoked[i]) :
            invoked[i][k].fn \in MediaHelpers => invoked[i][k].exists

(***************************************************************************)
(* plugins/gemini.py: what the provider may answer                         *)
(***************************************************************************)
M_png ==
    <<"i","m","a","g","e","/","p","n","g">>

M_jpeg ==
    <<"i","m","a","g","e","/","j","p","e","g">>

M_unknown ==
    <<"a","p","p","l","i","c","a","t","i","o","n","/","x","-","u","n","k","n","o","w","n">>

T_NEGLIGIBLE ==
    <<"N","E","G","L","I","G","I","B","L","E">>

T_HIGH ==
    <<"H","I","G","H">>

T_STOP ==
    <<"S","T","O","P">>

T_blank ==
    <<" ","\n">>

E_bad ==
    <<"b","a","d">>

\* the "error" member of a response; present is FALSE when the key is absent
Err(present, code, hasMessage, message) ==
    [present |-> present, code |-> code, hasMessage |-> hasMessage, message |-> message]

NoErr == Err(FALSE, 0, FALSE, <<>>)

\* the "promptFeedback" member; blockReason is None when it has none
Feedback(present, blockReason) == [present |-> present, blockReason |-> blockReason]

NoFeedback == Feedback(FALSE, None)

\* a part of a candidate's content: "text" and/or "fileData"; dataUri says
\* that fileUri starts with "data:" and contains ";base64,", decodable that
\* the payload is valid base64
Part(hasText, text, hasFile, dataUri, decodable, mimeType) ==
    [hasText |-> hasText, text |-> text, hasFile |-> hasFile, dataUri |-> dataUri,
     decodable |-> decodable, mimeType |-> mimeType]

TextPart(text) == Part(TRUE, text, FALSE, FALSE, FALSE, <<>>)

FilePart(mimeType) == Part(FALSE, <<>>, TRUE, TRUE, TRUE, mimeType)

Rating(category, probability) == [category |-> category, probability |-> probability]

Candidate(finishReason, safetyRatings, parts) ==
    [finishReason |-> finishReason, safetyRatings |-> safetyRatings, parts |-> parts]

\* a response of generateContent; raises says that async_searcher raised
\* e instead; candidates is None-like when present is FALSE
Response(error, promptFeedback, hasCandidates, candidates) ==
    [raises |-> FALSE, e |-> <<>>, error |-> error, promptFeedback |-> promptFeedback,
     hasCandidates |-> hasCandidates, candidates |-> candidates]

TransportError(e) ==
    [raises |-> TRUE, e |-> e, error |-> NoErr, promptFeedback |-> NoFeedback,
     hasCandidates |-> FALSE, candidates |-> <<>>]

(***************************************************************************)
(* plugins/gemini.py: gemini                                               *)
(***************************************************************************)
MessageLimit == 4096

\* mimetypes.guess_extension(mime_type) or ".out"
guess_extension(mimeType) ==
    CASE mimeType = M_png  -> ".png"
      [] mimeType = M_jpeg -> ".jpg"
      [] OTHER             -> ".out"

\* f"gemini_media{extension}", a name in the working directory
MediaName(extension) == <<"gemini_media", "", extension>>

RECURSIVE Join(_, _)
\* sep.join(items)
Join(sep, items) ==
    IF items = <<>> THEN <<>>
    ELSE IF Len(items) = 1 THEN items[1]
    ELSE items[1] \o sep \o Join(sep, Tail(items))

\* [r['category'] for r in ratings if r['probability'] != 'NEGLIGIBLE']
Reasons(ratings) ==
    LET F[k \in 0..Len(ratings)] ==
            IF k = 0 THEN <<>>
            ELSE IF ratings[k].probability # T_NEGLIGIBLE
                 THEN Append(F[k - 1], ratings[k].category)
                 ELSE F[k - 1]
    IN  F[Len(ratings)]

RECURSIVE WalkParts(_, _, _)
\* lines 115-129: the loop over the parts.  acc is [result_text, media_path,
\* written, raised]; written lists the files the loop wrote, raised says that
\* a part made the loop raise (b64decode of an invalid payload).
WalkParts(parts, k, acc) ==
    IF k > Len(parts) \/ acc.raised THEN acc
    ELSE LET p    == parts[k]
             a1   == IF p.hasText
                     THEN [acc EXCEPT !.result_text = @ \o p.text]
                     ELSE acc
             name == MediaName(guess_extension(p.mimeType))
             a2   == IF p.hasFile /\ p.dataUri
                     THEN IF p.decodable
                          THEN [a1 EXCEPT !.media_path = name,
                                          !.written = Append(@, name)]
                          ELSE [a1 EXCEPT !.raised = TRUE]
                     ELSE a1
         IN  WalkParts(parts, k + 1, a2)

\* Unwrap with promptFeedback looked at before the top-level error
Unwrap_feedback_first(response) ==
    LET base == [outcome |-> "", text |-> <<>>, checks |-> <<>>, result_text |-> <<>>,
                 media_path |-> NoFile, written |-> <<>>]
    IN  IF response.promptFeedback.present
               /\ Truthy(response.promptFeedback.blockReason)
        THEN [base EXCEPT !.outcome = "blocked",
                          !.checks = <<"promptFeedback">>,
                          !.text = GMSG_BlockedFor \o response.promptFeedback.blockReason]
        ELSE IF response.error.present
        THEN [base EXCEPT !.outcome = "error",
                          !.checks = <<"promptFeedback", "error">>,
                          !.text = GMSG_ErrorHead \o
                                      (IF response.error.hasMessage
                                       THEN response.error.message
                                       ELSE GMSG_UnknownError)]
        ELSE IF ~response.hasCandidates \/ response.candidates = <<>>
        THEN [base EXCEPT !.outcome = "no_candidates",
                          !.checks = <<"promptFeedback", "error", "candidates">>,
                          !.text = GMSG_NoCandidates]
        ELSE LET candidate == response.candidates[1]
                 seen      == <<"promptFeedback", "error", "candidates", "finishReason">>
             IN  IF candidate.finishReason = T_SAFETY
                 THEN [base EXCEPT !.outcome = "safety",
                                   !.checks = seen,
                                   !.text = GMSG_BlockedSafety \o
                                       Join(GMSG_CommaSpace,
                                            Reasons(candidate.safetyRatings))]
                 ELSE LET w == WalkParts(candidate.parts, 1,
                                   [result_text |-> <<>>, media_path |-> NoFile,
                                    written |-> <<>>, raised |-> FALSE])
                      IN  [base EXCEPT !.outcome = IF w.raised THEN "raised"
                                                   ELSE IF w.media_path # NoFile THEN "media"
                                                   ELSE IF strip(w.result_text) = <<>>
                                                        THEN "empty"
                                                   ELSE "text",
                                       !.checks = Append(seen, "parts"),
                                       !.text = IF w.raised THEN GMSG_Unexpected \o E_bad
                                                ELSE IF strip(w.result_text) = <<>>
                                                     THEN GMSG_Empty
                                                ELSE w.result_text,
                                       !.result_text = w.result_text,
                                       !.media_path = w.media_path,
                                       !.written = w.written]

\* lines 90-129: what the handler makes of a response.  outcome names the
\* check that decided, text is the message for the status message, checks
\* lists the members of the response examined, in order.
Unwrap(response) ==
    LET base == [outcome |-> "", text |-> <<>>, checks |-> <<>>, result_text |-> <<>>,
                 media_path |-> NoFile, written |-> <<>>]
    IN  IF response.error.present
        THEN [base EXCEPT !.outcome = "error",
                          !.checks = <<"error">>,
                          !.text = GMSG_ErrorHead \o
                                      (IF response.error.hasMessage
                                       THEN response.error.message
                                       ELSE GMSG_UnknownError)]
        ELSE IF response.promptFeedback.present
                  /\ Truthy(response.promptFeedback.blockReason)
        THEN [base EXCEPT !.outcome = "blocked",
                          !.checks = <<"error", "promptFeedback">>,
                          !.text = GMSG_BlockedFor \o response.promptFeedback.blockReason]
        ELSE IF ~response.hasCandidates \/ response.candidates = <<>>
        THEN [base EXCEPT !.outcome = "no_candidates",
                          !.checks = <<"error", "promptFeedback", "candidates">>,
                          !.text = GMSG_NoCandidates]
        ELSE LET candidate == response.candidates[1]
                 seen      == <<"error", "promptFeedback", "candidates", "finishReason">>
             IN  IF candidate.finishReason = T_SAFETY
                 THEN [base EXCEPT !.outcome = "safety",
                                   !.checks = seen,
                                   !.text = GMSG_BlockedSafety \o
                                       Join(GMSG_CommaSpace,
                                            Reasons(candidate.safetyRatings))]
                 ELSE LET w == WalkParts(candidate.parts, 1,
                                   [result_text |-> <<>>, media_path |-> NoFile,
                                    written |-> <<>>, raised |-> FALSE])
                      IN  [base EXCEPT !.outcome = IF w.raised THEN "raised"
                                                   ELSE IF w.media_path # NoFile THEN "media"
                                                   ELSE IF strip(w.result_text) = <<>>
                                                        THEN "empty"
                                                   ELSE "text",
                                       !.checks = Append(seen, "parts"),
                                       !.text = IF w.raised THEN GMSG_Unexpected \o E_bad
                                                ELSE IF strip(w.result_text) = <<>>
                                                     THEN GMSG_Empty
                                                ELSE w.result_text,
                                       !.result_text = w.result_text,
                                       !.media_path = w.media_path,
                                       !.written = w.written]

\* result_text[4096:] with one character too many dropped
RestAfterFirst_skip(text) == SliceFrom(text, MessageLimit + 1)

\* line 143: result_text[4096:]
RestAfterFirst(text) == SliceFrom(text, MessageLimit)

\* line 145: result_text[i:i+4096]
Chunk(text, pos) == Slice(text, pos, pos + MessageLimit)

RECURSIVE WriteAll(_, _, _)
\* the files of names written one after the other, a later one over an
\* earlier one of the same name
WriteAll(f, names, content) ==
    IF names = <<>> THEN f
    ELSE WriteAll(WriteFile(f, Head(names), content), Tail(names), content)

\* lines 30-40
GemStart(i) ==
    /\ handler[i] = "gem" /\ pc[i] = "start"
    /\ IF ~Truthy(udB["GEMINI_API_KEY"])
       THEN /\ Finish(i, <<Edited(GMSG_KeyNotSet)>>)
            /\ UNCHANGED loc
       ELSE /\ loc' = [loc EXCEPT ![i].prompt = SplitTail(event[i].text)]
            /\ pc' = [pc EXCEPT ![i] = "reply"]
            /\ UNCHANGED status
    /\ UNCHANGED <<Others, fs, sent, calls, invoked>>

\* event.reply_to_msg_id
reply_to_msg_id(reply) == reply.present \/ reply.kind = "gone"

\* lines 43-68.  The media is downloaded, read and removed without a
\* suspension in between, so the file is not on disk when the step ends;
\* download_media raising, or returning a path whose type is not known, are
\* the other outcomes.
GemReply(i) ==
    /\ handler[i] = "gem" /\ pc[i] = "reply"
    /\ LET reply  == event[i].reply
           media  == reply_to_msg_id(reply) /\ reply.present /\ has_media(reply)
           text   == IF reply_to_msg_id(reply) /\ reply.present THEN reply.message
                     ELSE <<>>
           prompt == IF Truthy(text)
                     THEN IF Truthy(loc[i].prompt)
                          THEN text \o T_NL2 \o loc[i].prompt
                          ELSE text
                     ELSE loc[i].prompt
       IN  \E d \in IF media THEN {"typed", "untyped", "raise"} ELSE {"none"} :
              IF d = "raise"
              THEN /\ Finish(i, <<Edited(GMSG_UploadError)>>)
                   /\ UNCHANGED loc
              ELSE IF ~Truthy(prompt) /\ d # "typed"
              THEN /\ Finish(i, <<Edited(GMSG_NeedPrompt)>>)
                   /\ loc' = [loc EXCEPT ![i].prompt = prompt]
              ELSE /\ loc' = [loc EXCEPT ![i].prompt = prompt,
                                         ![i].media_data = (d = "typed")]
                   /\ pc' = [pc EXCEPT ![i] = "request"]
                   /\ UNCHANGED status
    /\ UNCHANGED <<Others, fs, sent, calls, invoked>>

\* lines 70-88: the request
GemCall(i) ==
    LET model == Or(udB["GEMINI_MODEL"],
                    IF loc[i].media_data THEN D_gemini_vision ELSE D_gemini_pro)
    IN  [url     |-> U_gemini \o model \o U_generate \o udB["GEMINI_API_KEY"],
         payload |-> loc[i].prompt]

\* lines 70-132, 137-143, 146-151
GemRequest(i) ==
    /\ handler[i] = "gem" /\ pc[i] = "request"
    /\ calls' = [calls EXCEPT ![i] = Append(@, GemCall(i))]
    /\ LET response == event[i].response
           u        == Unwrap(response)
       IN  IF response.raises
           THEN /\ Finish(i, <<Edited(GMSG_Unexpected \o response.e)>>)
                /\ UNCHANGED <<fs, loc>>
           ELSE /\ fs' = WriteAll(fs, u.written, [by |-> i, what |-> "image"])
                /\ CASE u.outcome = "media" ->
                          /\ loc' = [loc EXCEPT ![i].checks = u.checks,
                                                ![i].text = u.result_text,
                                                ![i].result_text = u.result_text,
                                                ![i].media_path = u.media_path]
                          /\ status' = [status EXCEPT ![i] = Append(@, Deleted)]
                          /\ pc' = [pc EXCEPT ![i] = "media_reply"]
                     [] u.outcome = "text" /\ Len(u.result_text) > MessageLimit ->
                          /\ loc' = [loc EXCEPT ![i].checks = u.checks,
                                                ![i].text = u.result_text,
                                                ![i].result_text =
                                                    RestAfterFirst(u.result_text),
                                                ![i].pos = 0]
                          /\ status' = [status EXCEPT ![i] =
                                 Append(@, Edited(Slice(u.result_text, 0, MessageLimit)))]
                          /\ pc' = [pc EXCEPT ![i] = "chunks"]
                     [] OTHER ->
                          /\ loc' = [loc EXCEPT ![i].checks = u.checks,
                                                ![i].text = u.text,
                                                ![i].result_text = u.result_text,
                                                ![i].media_path = u.media_path]
                          /\ Finish(i, <<Edited(u.text)>>)
    /\ UNCHANGED <<Others, sent, invoked>>

\* lines 133-135, and 149-151 when event.reply raises
GemMediaReply(i) ==
    /\ handler[i] = "gem" /\ pc[i] = "media_reply"
    /\ \/ /\ Exists(loc[i].media_path)
          /\ sent' = [sent EXCEPT ![i] =
                 Append(@, [SentFile(loc[i].media_path) EXCEPT !.text = loc[i].result_text])]
          /\ fs' = RemoveQuiet(fs, loc[i].media_path)
          /\ pc' = [pc EXCEPT ![i] = "done"]
          /\ UNCHANGED status
       \/ /\ Finish(i, <<Edited(GMSG_Unexpected \o
                 (IF Exists(loc[i].media_path) THEN E_timeout ELSE E_enoent))>>)
          /\ UNCHANGED <<sent, fs>>
    /\ UNCHANGED <<Others, loc, calls, invoked>>

\* lines 144-145, one turn of the loop, and 149-151 when event.reply raises
GemChunk(i) ==
    /\ handler[i] = "gem" /\ pc[i] = "chunks"
    /\ loc[i].pos < Len(loc[i].result_text)
    /\ \/ /\ sent' = [sent EXCEPT ![i] = Append(@,
                 SentText(Chunk(loc[i].result_text, loc[i].pos)))]
          /\ loc' = [loc EXCEPT ![i].pos = @ + MessageLimit]
          /\ pc' = [pc EXCEPT ![i] =
                 IF loc[i].pos + MessageLimit < Len(loc[i].result_text)
                 THEN "chunks" ELSE "done"]
          /\ UNCHANGED status
       \/ /\ Finish(i, <<Edited(GMSG_Unexpected \o E_timeout)>>)
          /\ UNCHANGED <<sent, loc>>
    /\ UNCHANGED <<Others, fs, calls, invoked>>

gemini(i) ==
    \/ GemStart(i)
    \/ GemReply(i)
    \/ GemRequest(i)
    \/ GemMediaReply(i)
    \/ GemChunk(i)

(***************************************************************************)
(* Inputs and the specification of one gemini invocation                   *)
(***************************************************************************)
MaxChunks == 3

\* a text of n characters that differ from place to place
LongText(n) == [k \in 1..n |-> ToString(k % 10)]

LongLengths ==
    {MessageLimit * c + d : c \in 1..MaxChunks, d \in {0, 1}}
        \cup {MessageLimit * c - 1 : c \in 2..MaxChunks}

GemStores ==
    {Settings(None, None, None, None, key, model) :
        key \in {None, V_key}, model \in {None, V_gmodel}}

NoEnvironment == Settings(None, None, None, None, None, None)

GemTexts == {G_bare, G_hi, G_pad}

GemReplies ==
    {NoReply, Reply(FALSE, "gone", <<>>), Reply(TRUE, "photo", <<>>),
     Reply(TRUE, "text", T_hello)}

Errors ==
    {NoErr, Err(TRUE, 429, TRUE, T_quota), Err(TRUE, 500, TRUE, T_quota),
     Err(TRUE, 400, FALSE, <<>>)}

Feedbacks ==
    {NoFeedback, Feedback(TRUE, None), Feedback(TRUE, T_SAFETY), Feedback(TRUE, T_OTHER)}

SafetyCandidate ==
    Candidate(T_SAFETY, <<Rating(T_HARM, T_HIGH), Rating(T_HATE, T_NEGLIGIBLE)>>,
              <<TextPart(T_hi)>>)

Stopped(parts) == Candidate(T_STOP, <<>>, parts)

CandidateLists ==
    {<<>>, <<SafetyCandidate>>, <<Stopped(<<TextPart(T_hi)>>), SafetyCandidate>>,
     <<SafetyCandidate, Stopped(<<TextPart(T_hi)>>)>>}
        \cup {<<Stopped(parts)>> : parts \in
                {<<>>, <<TextPart(T_hi)>>, <<TextPart(T_blank)>>,
                 <<TextPart(T_hi), TextPart(T_hello)>>,
                 <<FilePart(M_png)>>, <<TextPart(T_hi), FilePart(M_unknown)>>,
                 <<FilePart(M_png), FilePart(M_jpeg)>>,
                 <<FilePart(M_png), Part(FALSE, <<>>, TRUE, TRUE, FALSE, M_png)>>,
                 <<Part(FALSE, <<>>, TRUE, FALSE, FALSE, M_png)>>}}

GemResponses ==
    {TransportError(E_timeout)}
        \cup {Response(e, f, FALSE, <<>>) : e \in Errors, f \in Feedbacks}
        \cup {Response(e, f, TRUE, c) : e \in Errors, f \in Feedbacks, c \in CandidateLists}

LongResponses ==
    {Response(NoErr, NoFeedback, TRUE, <<Stopped(<<TextPart(LongText(n))>>)>>) :
        n \in LongLengths}
        \cup {Response(NoErr, NoFeedback, TRUE,
                  <<Stopped(<<TextPart(LongText(MessageLimit)), TextPart(T_hi)>>)>>)}

GemEvent(text, reply, response) == [text |-> text, reply |-> reply, response |-> response]

InitGem ==
    /\ udB \in GemStores
    /\ environ = NoEnvironment
    /\ handler = [i \in Inv |-> IF i = 1 THEN "gem" ELSE "off"]
    /\ pc = [i \in Inv |-> IF i = 1 THEN "start" ELSE "off"]
    /\ \/ \E text \in GemTexts, reply \in GemReplies, response \in GemResponses :
            event = [i \in Inv |-> GemEvent(text, reply, response)]
       \/ \E response \in LongResponses :
            event = [i \in Inv |-> GemEvent(G_hi, NoReply, response)]
    /\ InitCommon

NextGem == \E i \in Inv : gemini(i)

SpecGem == InitGem /\ [][NextGem]_vars

(***************************************************************************)
(* Properties of one invocation                                            *)
(***************************************************************************)
Running == {i \in Inv : handler[i] # "off"}

Gem == {i \in Inv : handler[i] = "gem"}

\* the invocation is over: the handler returned, or an exception left it
Completed(i) == pc[i] \in {"done", "raised"}

\* C4: after a handler invocation has completed, on whatever exit path, no
\* temporary media file that it downloaded or generated is still on disk.
C4_NoTempFileLeft ==
    \A i \in Running :
        Completed(i) => \A n \in DOMAIN fs : fs[n].by # i

\* C5: an invocation that has completed has updated or deleted its status
\* message exactly once.
C5_StatusTouchedOnce ==
    \A i \in Running :
        Completed(i) => Len(status[i]) = 1

\* the texts emitted so far: the text put into the status message, then the
\* messages sent
Emitted(i) == <<status[i][1].text>> \o [k \in 1..Len(sent[i]) |-> sent[i][k].text]

\* the invocation is emitting, or has emitted, a text longer than a message
Chunking(i) ==
    /\ pc[i] \in {"chunks", "done"}
    /\ Len(loc[i].text) > MessageLimit
    /\ loc[i].media_path = NoFile

Unwrapped(i) ==
    /\ handler[i] = "gem"
    /\ Len(calls[i]) = 1
    /\ ~event[i].response.raises
    /\ pc[i] # "request"

\* the concatenation of the text parts
TextOf(parts) ==
    Join(<<>>, [k \in 1..Len(parts) |-> IF parts[k].hasText THEN parts[k].text ELSE <<>>])

\* C7: the gemini handler decides by the first matching check in the order
\* top-level error, promptFeedback.blockReason, empty or missing candidates,
\* first candidate's finishReason SAFETY, concatenation of the first
\* candidate's text parts; with blockReason R and no top-level error it emits
\* 'Blocked for: R' and examines no candidate.
C7_ChecksInOrder ==
    \A i \in Gem :
        Unwrapped(i) =>
            LET r     == event[i].response
                block == r.promptFeedback.present /\ Truthy(r.promptFeedback.blockReason)
                none  == ~r.hasCandidates \/ r.candidates = <<>>
            IN  IF r.error.present
                THEN /\ loc[i].checks = <<"error">>
                     /\ status[i] = <<Edited(GMSG_ErrorHead \o
                            (IF r.error.hasMessage THEN r.error.message
                             ELSE GMSG_UnknownError))>>
                ELSE IF block
                THEN /\ loc[i].checks = <<"error", "promptFeedback">>
                     /\ status[i] = <<Edited(GMSG_BlockedFor \o r.promptFeedback.blockReason)>>
                ELSE IF none
                THEN /\ loc[i].checks = <<"error", "promptFeedback", "candidates">>
                     /\ status[i] = <<Edited(GMSG_NoCandidates)>>
                ELSE IF r.candidates[1].finishReason = T_SAFETY
                THEN /\ loc[i].checks =
                            <<"error", "promptFeedback", "candidates", "finishReason">>
                     /\ Len(status[i]) = 1
                     /\ startswith(status[i][1].text, GMSG_BlockedSafety)
                ELSE /\ loc[i].checks =
                            <<"error", "promptFeedback", "candidates", "finishReason",
                              "parts">>
                     /\ (\A k \in 1..Len(r.candidates[1].parts) :
                             LET p == r.candidates[1].parts[k]
                             IN  (p.hasFile /\ p.dataUri) => p.decodable)
                          => TextOf(r.candidates[1].parts) =
                                 (IF Len(loc[i].text) > MessageLimit THEN loc[i].text
                                  ELSE loc[i].result_text)

C7_Witness ==
    /\ Unwrapped(1) /\ Returned(1)
    /\ ~event[1].response.error.present
    /\ event[1].response.promptFeedback.blockReason = T_SAFETY
    /\ event[1].response.hasCandidates
    /\ event[1].response.candidates # <<>>
    /\ status[1] = <<Edited(GMSG_BlockedFor \o T_SAFETY)>>
    /\ loc[1].checks = <<"error", "promptFeedback">>

(***************************************************************************)
(* Two invocations interleaved at their suspension points                  *)
(***************************************************************************)
BothKeys == Settings(V_key, None, None, None, V_key, None)

ConcResponses ==
    {Response(Err(TRUE, 429, TRUE, T_quota), NoFeedback, FALSE, <<>>),
     Response(Err(TRUE, 500, TRUE, T_quota), NoFeedback, FALSE, <<>>),
     Response(NoErr, NoFeedback, TRUE, <<Stopped(<<TextPart(T_hi)>>)>>),
     Response(NoErr, NoFeedback, TRUE, <<Stopped(<<FilePart(M_png)>>)>>),
     Response(NoErr, NoFeedback, TRUE, <<Stopped(<<TextPart(T_hi), FilePart(M_jpeg)>>)>>)}

ConcEvents ==
    {[text |-> A_create_cat, reply |-> NoReply, response |-> NoResponse]}
        \cup {GemEvent(G_hi, NoReply, response) : response \in ConcResponses}

HandlerOf(e) == IF "none" \in DOMAIN e.response THEN "ai" ELSE "gem"

InitConc ==
    /\ udB = BothKeys
    /\ environ = NoEnvironment
    /\ event \in [Inv -> ConcEvents]
    /\ handler = [i \in Inv |-> HandlerOf(event[i])]
    /\ pc = [i \in Inv |-> "start"]
    /\ InitCommon

\* the steps the commands of ConcEvents can take
NextConc ==
    \E i \in Inv :
        \/ AiStart(i)
        \/ AiCreate(i)
        \/ AiCreateSend(i)
        \/ AiCreateCleanup(i)
        \/ GemStart(i)
        \/ GemReply(i)
        \/ GemRequest(i)
        \/ GemMediaReply(i)

SpecConc == InitConc /\ [][NextConc]_vars

\* the step leaves alone every file that an invocation other than the one
\* taking the step created
OwnFilesOnly ==
    \A i \in Inv : \A n \in DOMAIN fs :
        (pc'[i] # pc[i] /\ (n \notin DOMAIN fs' \/ fs'[n] # fs[n])) => fs[n].by = i

\* every file an invocation has sent holds what that invocation wrote
SendsOwnContent ==
    \A i \in Inv : \A k \in 1..Len(sent[i]) :
        sent[i][k].kind = "file" => sent[i][k].content.by = i

\* C10: interleaved invocations never share a temporary media file: none
\* overwrites or deletes a file another invocation created, and each sends
\* the media content it produced itself.
C10_FilesNeverShared == [][OwnFilesOnly]_vars /\ []SendsOwnContent

\* C8: for a top-level error of HTTP 429 the gemini handler emits a message
\* that differs from the one it emits for any other top-level error.
C8_RateLimitMessageDistinct ==
    \A i \in Gem, j \in Gem :
        (/\ Returned(i) /\ Returned(j)
         /\ Unwrapped(i) /\ Unwrapped(j)
         /\ event[i].response.error.present /\ event[i].response.error.code = 429
         /\ event[j].response.error.present /\ event[j].response.error.code # 429)
        => status[i] # status[j]

====
